---- MODULE Spec2Model ----
(***************************************************************************)
(* dotter, src/deploy.rs: the reconciliation planner (plan_deploy,         *)
(* plan_undeploy) and the deploy / undeploy drivers that execute a plan    *)
(* against a filesystem and maintain the cache of managed entries.         *)
(*                                                                         *)
(* Paths are small integers.  A symlink or template description is a       *)
(* record [source, target]; the cache path of a template is                *)
(* cache_directory.join(source), a function of the source, so it is not a  *)
(* separate field.  Owners, append and prepend text do not take part in    *)
(* the set operations and are left out.                                    *)
(***************************************************************************)
EXTENDS Integers, Sequences, FiniteSets, TLC

NumSources == 2

Sources == 1..NumSources

\* Two target paths: enough for an entity to move from one path to another
\* and for two entities to meet on one path.
Targets == {1, 2}

Descriptions == [source : Sources, target : Targets]

(***************************************************************************)
(* Ordered collections.  BTreeSet<Description> and BTreeMap<source,target> *)
(* iterate in ascending order of (source, target).                         *)
(***************************************************************************)
DescLt(a, b) ==
  \/ a.source < b.source
  \/ a.source = b.source /\ a.target < b.target

RECURSIVE SortedSeq(_)
SortedSeq(S) ==
  IF S = {} THEN << >>
  ELSE LET m == CHOOSE x \in S : \A y \in S : x = y \/ DescLt(x, y)
       IN  << m >> \o SortedSeq(S \ {m})

\* Action::Kind { source, target }
MkAction(kind, d) == [kind |-> kind, source |-> d.source, target |-> d.target]

\* for x in set { actions.push(Action::Kind(x)) }
Phase(kind, S) ==
  LET seq == SortedSeq(S)
  IN  [k \in 1..Len(seq) |-> MkAction(kind, seq[k])]

(***************************************************************************)
(* The planner.                                                            *)
(***************************************************************************)
plan_deploy_creates_first(state) ==
     Phase("CreateSymlink",  state.desired_symlinks  \ state.existing_symlinks)
  \o Phase("CreateTemplate", state.desired_templates \ state.existing_templates)
  \o Phase("DeleteSymlink",  state.existing_symlinks  \ state.desired_symlinks)
  \o Phase("DeleteTemplate", state.existing_templates \ state.desired_templates)
  \o Phase("UpdateSymlink",  state.desired_symlinks  \cap state.existing_symlinks)
  \o Phase("UpdateTemplate", state.desired_templates \cap state.existing_templates)

plan_deploy_templates_first(state) ==
     Phase("DeleteTemplate", state.existing_templates \ state.desired_templates)
  \o Phase("DeleteSymlink",  state.existing_symlinks  \ state.desired_symlinks)
  \o Phase("CreateTemplate", state.desired_templates \ state.existing_templates)
  \o Phase("CreateSymlink",  state.desired_symlinks  \ state.existing_symlinks)
  \o Phase("UpdateTemplate", state.desired_templates \cap state.existing_templates)
  \o Phase("UpdateSymlink",  state.desired_symlinks  \cap state.existing_symlinks)

plan_deploy_updates_all_desired(state) ==
     Phase("DeleteSymlink",  state.existing_symlinks  \ state.desired_symlinks)
  \o Phase("DeleteTemplate", state.existing_templates \ state.desired_templates)
  \o Phase("CreateSymlink",  state.desired_symlinks  \ state.existing_symlinks)
  \o Phase("CreateTemplate", state.desired_templates \ state.existing_templates)
  \o Phase("UpdateSymlink",  state.desired_symlinks)
  \o Phase("UpdateTemplate", state.desired_templates)

plan_deploy_creates_all_desired(state) ==
     Phase("DeleteSymlink",  state.existing_symlinks  \ state.desired_symlinks)
  \o Phase("DeleteTemplate", state.existing_templates \ state.desired_templates)
  \o Phase("CreateSymlink",  state.desired_symlinks)
  \o Phase("CreateTemplate", state.desired_templates)

plan_deploy_deletes_all_existing(state) ==
     Phase("DeleteSymlink",  state.existing_symlinks)
  \o Phase("DeleteTemplate", state.existing_templates)
  \o Phase("CreateSymlink",  state.desired_symlinks  \ state.existing_symlinks)
  \o Phase("CreateTemplate", state.desired_templates \ state.existing_templates)
  \o Phase("UpdateSymlink",  state.desired_symlinks  \cap state.existing_symlinks)
  \o Phase("UpdateTemplate", state.desired_templates \cap state.existing_templates)

plan_deploy_deletes_last(state) ==
     Phase("CreateSymlink",  state.desired_symlinks  \ state.existing_symlinks)
  \o Phase("CreateTemplate", state.desired_templates \ state.existing_templates)
  \o Phase("UpdateSymlink",  state.desired_symlinks  \cap state.existing_symlinks)
  \o Phase("UpdateTemplate", state.desired_templates \cap state.existing_templates)
  \o Phase("DeleteSymlink",  state.existing_symlinks  \ state.desired_symlinks)
  \o Phase("DeleteTemplate", state.existing_templates \ state.desired_templates)

plan_deploy_no_deletes(state) ==
     Phase("CreateSymlink",  state.desired_symlinks  \ state.existing_symlinks)
  \o Phase("CreateTemplate", state.desired_templates \ state.existing_templates)
  \o Phase("UpdateSymlink",  state.desired_symlinks  \cap state.existing_symlinks)
  \o Phase("UpdateTemplate", state.desired_templates \cap state.existing_templates)

plan_deploy(state) ==
     Phase("DeleteSymlink",  state.existing_symlinks  \ state.desired_symlinks)
  \o Phase("DeleteTemplate", state.existing_templates \ state.desired_templates)
  \o Phase("CreateSymlink",  state.desired_symlinks  \ state.existing_symlinks)
  \o Phase("CreateTemplate", state.desired_templates \ state.existing_templates)
  \o Phase("UpdateSymlink",  state.desired_symlinks  \cap state.existing_symlinks)
  \o Phase("UpdateTemplate", state.desired_templates \cap state.existing_templates)

plan_undeploy_symlinks_only(cache) ==
  Phase("DeleteSymlink", cache.symlinks)

plan_undeploy(cache) ==
     Phase("DeleteSymlink",  cache.symlinks)
  \o Phase("DeleteTemplate", cache.templates)

(***************************************************************************)
(* Cache: two ordered maps source -> target, kept as sets of descriptions  *)
(* with at most one entry per source.                                      *)
(***************************************************************************)
EmptyCache == [symlinks |-> {}, templates |-> {}]

\* BTreeMap::insert(source, target): overwrites the entry of that source
MapInsert(m, s, t) ==
  {e \in m : e.source # s} \cup {[source |-> s, target |-> t]}

\* BTreeMap::remove(source)
MapRemove(m, s) == {e \in m : e.source # s}

\* Action::affect_cache (crate::actions):
\* entries removed on delete, inserted or overwritten on create and update.
affect_cache(a, cache) ==
  CASE a.kind = "DeleteSymlink" ->
         [cache EXCEPT !.symlinks = MapRemove(@, a.source)]
    [] a.kind = "DeleteTemplate" ->
         [cache EXCEPT !.templates = MapRemove(@, a.source)]
    [] a.kind \in {"CreateSymlink", "UpdateSymlink"} ->
         [cache EXCEPT !.symlinks = MapInsert(@, a.source, a.target)]
    [] a.kind \in {"CreateTemplate", "UpdateTemplate"} ->
         [cache EXCEPT !.templates = MapInsert(@, a.source, a.target)]

\* file_state_from_configuration (crate::file_state): desired sets from the
\* configuration, existing sets rebuilt from the cache entries.
file_state_from_configuration(config, cache) ==
  [desired_symlinks   |-> config.symlinks,
   desired_templates  |-> config.templates,
   existing_symlinks  |-> cache.symlinks,
   existing_templates |-> cache.templates]

(***************************************************************************)
(* The filesystem.  tgt[t] is what occupies target path t: nothing, a      *)
(* symlink to source s, a regular file equal to the rendering of source s, *)
(* or something the tool never wrote.  src is the set of source files that *)
(* exist, art the set of sources whose rendered artifact exists under the  *)
(* cache directory, dirs the set of parent directories that exist.         *)
(***************************************************************************)
Missing == [type |-> "missing", of |-> 0]
Foreign == [type |-> "foreign", of |-> 0]
LinkTo(s) == [type |-> "link", of |-> s]
FileOf(s) == [type |-> "file", of |-> s]

Contents == {Missing, Foreign} \cup {LinkTo(s) : s \in Sources}
              \cup {FileOf(s) : s \in Sources}

\* Paths as they appear in the arguments of filesystem calls
NoPath == [ns |-> "none", id |-> 0, parent |-> FALSE]
Src(s) == [ns |-> "source", id |-> s, parent |-> FALSE]
Tgt(t) == [ns |-> "target", id |-> t, parent |-> FALSE]
CachePath(s) == [ns |-> "cache", id |-> s, parent |-> FALSE]
Parent(p) == [p EXCEPT !.parent = TRUE]

Call(op, a, b) == [op |-> op, a |-> a, b |-> b]

ReadOps == {"compare_symlink", "compare_template", "read_to_string"}
Mutating(c) == c.op \notin ReadOps

\* Filesystem::compare_symlink(source, target) -> SymlinkComparison
compare_symlink(fs, s, t) ==
  IF fs.tgt[t] = LinkTo(s) THEN "Identical"
  ELSE IF fs.tgt[t] = Missing
       THEN (IF s \in fs.src THEN "OnlySourceExists" ELSE "BothMissing")
       ELSE (IF s \in fs.src THEN "Mismatch" ELSE "OnlyTargetExists")

\* Filesystem::compare_template(target, cache) -> TemplateComparison
compare_template(fs, t, s) ==
  IF fs.tgt[t] = Missing
  THEN (IF s \in fs.art THEN "OnlyCacheExists" ELSE "BothMissing")
  ELSE IF s \notin fs.art THEN "OnlyTargetExists"
       ELSE IF fs.tgt[t] = FileOf(s) THEN "Identical" ELSE "Mismatch"

IsSymlinkKind(kind) == kind \in {"CreateSymlink", "UpdateSymlink", "DeleteSymlink"}
IsDeleteKind(kind) == kind \in {"DeleteSymlink", "DeleteTemplate"}

CompareCall(a) ==
  IF IsSymlinkKind(a.kind)
  THEN Call("compare_symlink", Src(a.source), Tgt(a.target))
  ELSE Call("compare_template", Tgt(a.target), CachePath(a.source))

Compare(fs, a) ==
  IF IsSymlinkKind(a.kind)
  THEN compare_symlink(fs, a.source, a.target)
  ELSE compare_template(fs, a.target, a.source)

Conflicts == {"OnlyTargetExists", "Mismatch"}

(***************************************************************************)
(* Action::run (crate::actions).  After the comparison an action either    *)
(* skips (a conflict without force) or issues a fixed sequence of calls.   *)
(***************************************************************************)
SymlinkDeployCallsLinkFirst(s, t) ==
  << Call("make_symlink", Tgt(t), Src(s)),
     Call("create_dir_all", Parent(Tgt(t)), NoPath) >>

SymlinkDeployCalls(s, t) ==
  << Call("create_dir_all", Parent(Tgt(t)), NoPath),
     Call("make_symlink", Tgt(t), Src(s)) >>

TemplateDeployCallsCopyFirst(s, t) ==
  << Call("create_dir_all", Parent(Tgt(t)), NoPath),
     Call("read_to_string", Src(s), NoPath),
     Call("copy_file", CachePath(s), Tgt(t)),
     Call("create_dir_all", Parent(CachePath(s)), NoPath),
     Call("write", CachePath(s), NoPath),
     Call("copy_permissions", Src(s), Tgt(t)) >>

TemplateDeployCalls(s, t) ==
  << Call("create_dir_all", Parent(Tgt(t)), NoPath),
     Call("read_to_string", Src(s), NoPath),
     Call("create_dir_all", Parent(CachePath(s)), NoPath),
     Call("write", CachePath(s), NoPath),
     Call("copy_file", CachePath(s), Tgt(t)),
     Call("copy_permissions", Src(s), Tgt(t)) >>

RemoveTarget(t) == << Call("remove_file", Tgt(t), NoPath) >>
RemoveArtifact(s) == << Call("remove_file", CachePath(s), NoPath) >>

\* The decision an action takes on its comparison: skip, or the calls to make
SkipScript == [skip |-> TRUE, calls |-> << >>]
DoScript(calls) == [skip |-> FALSE, calls |-> calls]

ScriptIgnoringForce(a, cmp, force) ==
  LET s == a.source
      t == a.target
      deploy == IF IsSymlinkKind(a.kind) THEN SymlinkDeployCalls(s, t)
                ELSE TemplateDeployCalls(s, t)
  IN  IF IsDeleteKind(a.kind)
      THEN IF cmp \in {"Identical"} \cup Conflicts
           THEN DoScript(RemoveTarget(t) \o
                  (IF a.kind = "DeleteTemplate" /\ cmp # "OnlyTargetExists"
                   THEN RemoveArtifact(s) ELSE << >>))
           ELSE DoScript(IF cmp = "OnlyCacheExists" THEN RemoveArtifact(s) ELSE << >>)
      ELSE IF cmp = "Identical" THEN DoScript(<< >>)
           ELSE IF cmp \in Conflicts THEN DoScript(RemoveTarget(t) \o deploy)
                ELSE DoScript(deploy)

Script(a, cmp, force) ==
  LET s == a.source
      t == a.target
      deploy == IF IsSymlinkKind(a.kind) THEN SymlinkDeployCalls(s, t)
                ELSE TemplateDeployCalls(s, t)
  IN  IF cmp \in Conflicts /\ ~force THEN SkipScript
      ELSE IF IsDeleteKind(a.kind)
      THEN \* target as recorded (or forced): remove it, and a template's artifact
           IF cmp \in {"Identical"} \cup Conflicts
           THEN DoScript(RemoveTarget(t) \o
                  (IF a.kind = "DeleteTemplate" /\ cmp # "OnlyTargetExists"
                   THEN RemoveArtifact(s) ELSE << >>))
           \* target already gone: only a left-over artifact remains to remove
           ELSE DoScript(IF cmp = "OnlyCacheExists" THEN RemoveArtifact(s) ELSE << >>)
      ELSE IF cmp = "Identical" THEN DoScript(<< >>)
           ELSE IF cmp \in Conflicts THEN DoScript(RemoveTarget(t) \o deploy)
                ELSE DoScript(deploy)

\* A call that fails whatever the environment does: reading a missing source
MustFail(fs, c) == c.op = "read_to_string" /\ c.a.id \notin fs.src

\* The effect of a successful call on the real filesystem
ApplyCall(fs, c) ==
  CASE c.op = "make_symlink" -> [fs EXCEPT !.tgt[c.a.id] = LinkTo(c.b.id)]
    [] c.op = "copy_file"    -> [fs EXCEPT !.tgt[c.b.id] = FileOf(c.a.id)]
    [] c.op = "write"        -> [fs EXCEPT !.art = @ \cup {c.a.id}]
    [] c.op = "create_dir_all" -> [fs EXCEPT !.dirs = @ \cup {c.a}]
    [] c.op = "remove_file" /\ c.a.ns = "target" ->
                                [fs EXCEPT !.tgt[c.a.id] = Missing]
    [] c.op = "remove_file" /\ c.a.ns = "cache" ->
                                [fs EXCEPT !.art = @ \ {c.a.id}]
    [] OTHER -> fs

FsCallAlwaysReal(fs, c, act) == IF Mutating(c) THEN ApplyCall(fs, c) ELSE fs

\* RealFilesystem mutates; DryRunFilesystem answers reads from the real
\* filesystem and performs no mutation.
FsCall(fs, c, act) == IF act /\ Mutating(c) THEN ApplyCall(fs, c) ELSE fs

\* A call that can fail with an I/O error: every call of the real
\* filesystem, and the reads of the dry-run one.
CanFail(c, act) == act \/ ~Mutating(c)

\* Issue calls[k..] in order; fault is the index of the call the environment
\* fails (0: none).  Stops at the first failing call.
RECURSIVE Exec(_, _, _, _, _)
Exec(fs, calls, k, fault, act) ==
  IF k > Len(calls) THEN [fs |-> fs, issued |-> Len(calls), failed |-> FALSE]
  ELSE IF MustFail(fs, calls[k]) \/ (fault = k /\ CanFail(calls[k], act))
       THEN [fs |-> fs, issued |-> k, failed |-> TRUE]
       ELSE Exec(FsCall(fs, calls[k], act), calls, k + 1, fault, act)

\* Action::run(fs, opt, ...) -> Result<bool>; res is "applied" for Ok(true),
\* "skipped" for Ok(false), "error" for Err.
run(a, fs, opt, fault) ==
  IF fault = 1
  THEN [res |-> "error", cmp |-> "none", fs |-> fs, calls |-> << CompareCall(a) >>]
  ELSE LET cmp == Compare(fs, a)
           script == Script(a, cmp, opt.force)
           all == << CompareCall(a) >> \o script.calls
           out == Exec(fs, all, 2, fault, opt.act)
       IN  [res   |-> IF out.failed THEN "error"
                      ELSE IF script.skip THEN "skipped" ELSE "applied",
            cmp   |-> cmp,
            fs    |-> out.fs,
            calls |-> SubSeq(all, 1, out.issued)]

\* Number of calls an action would issue if none failed
NumCalls(a, fs, opt) == 1 + Len(Script(a, Compare(fs, a), opt.force).calls)

(***************************************************************************)
(* Environments a run can start in.                                        *)
(***************************************************************************)
MaxFaults == 1

\* A configuration or a saved cache: every source at most once over both
\* kinds, and no two entries on one target.
WellFormed(c) ==
  LET all == c.symlinks \cup c.templates
      n   == Cardinality(c.symlinks) + Cardinality(c.templates)
  IN  /\ Cardinality({e.source : e \in all}) = n
      /\ Cardinality({e.target : e \in all}) = n

Configs ==
  {c \in [symlinks : SUBSET Descriptions, templates : SUBSET Descriptions] :
     WellFormed(c)}

\* The filesystem as a complete deploy of cache c leaves it
Intact(c) ==
  [tgt |-> [t \in Targets |->
              IF \E e \in c.symlinks : e.target = t
              THEN LinkTo((CHOOSE e \in c.symlinks : e.target = t).source)
              ELSE IF \E e \in c.templates : e.target = t
                   THEN FileOf((CHOOSE e \in c.templates : e.target = t).source)
                   ELSE Missing],
   src |-> Sources,
   art |-> {e.source : e \in c.templates},
   dirs |-> {Parent(Tgt(e.target)) : e \in c.symlinks \cup c.templates}
              \cup {Parent(CachePath(e.source)) : e \in c.templates}]

\* ... and after at most one external change: a target removed or replaced
\* by something else, or a source file removed.
Environments(c) ==
  LET base == Intact(c)
  IN  {base}
      \cup {[base EXCEPT !.tgt[t] = Missing] : t \in Targets}
      \cup {[base EXCEPT !.tgt[t] = Foreign, !.dirs = @ \cup {Parent(Tgt(t))}] :
              t \in Targets}
      \cup {[base EXCEPT !.src = @ \ {s}] : s \in Sources}

\* undeploy never reads the desired entries: a few configurations suffice
UndeployConfigs ==
  {c \in Configs : \A e \in c.symlinks \cup c.templates :
                     e.source = 1 /\ e.target = 1}

Options == [act : BOOLEAN, force : BOOLEAN]

VARIABLES
  mode,            \* "deploy" or "undeploy": the command being run
  opt,             \* Options: act (false: dry run), force
  config,          \* the desired symlinks and templates of the configuration
  cacheFile,       \* the cache file on disk: [present, data]
  fs,              \* the filesystem
  fs0,             \* the filesystem as the run found it
  cacheFile0,      \* the cache file as the run found it
  pc,              \* position in deploy() / undeploy()
  cache,           \* the in-memory cache
  cache0,          \* the cache as loaded at the start of the run
  plan,            \* the action plan
  i,               \* index of the next action of the plan
  events,          \* what the run did so far, in order
  calls,           \* the filesystem calls issued by the last action
  before,          \* the filesystem and the cache the last action started from
  suggest_force,
  error_occurred,
  mutated,         \* a mutating call reached the real filesystem in this run
  faults,          \* failures the environment injected so far
  ret,             \* the value returned by the run
  prev             \* how the previous run over this state ended

vars == << mode, opt, config, cacheFile, fs, fs0, cacheFile0, pc, cache, cache0, plan, i, events,
           calls, before, suggest_force, error_occurred, mutated, faults, ret, prev >>

\* ev: "load", "pre_hook", "action", "save", "post_hook"; for an action, idx is its
\* index in the plan, cmp its comparison and res its result.
Event(ev, idx, cmp, res) == [ev |-> ev, idx |-> idx, cmp |-> cmp, res |-> res]

Init ==
  /\ mode \in {"deploy", "undeploy"}
  /\ opt \in Options
  /\ config \in IF mode = "deploy" THEN Configs ELSE UndeployConfigs
  /\ cacheFile \in {[present |-> FALSE, data |-> EmptyCache]}
                     \cup {[present |-> TRUE, data |-> c] : c \in Configs}
  /\ fs \in Environments(cacheFile.data)
  /\ fs0 = fs
  /\ cacheFile0 = cacheFile
  /\ pc = "start"
  /\ cache = EmptyCache
  /\ cache0 = EmptyCache
  /\ plan = << >>
  /\ i = 1
  /\ events = << >>
  /\ calls = << >>
  /\ before = [fs |-> fs, cache |-> EmptyCache]
  /\ suggest_force = FALSE
  /\ error_occurred = FALSE
  /\ mutated = FALSE
  /\ faults = 0
  /\ ret = "none"
  /\ prev = "none"

Abort ==
  /\ pc' = "failed"
  /\ ret' = "Err"

(***************************************************************************)
(* deploy(), lines 32-46; undeploy(), lines 112-118: load the              *)
(* configuration and the cache.                                            *)
(***************************************************************************)
CacheNeverRequired(m) == FALSE

\* undeploy() refuses to run without a cache file (lines 115-116); deploy()
\* takes a missing one for an empty cache (lines 35-40).
CacheRequired(m) == m = "undeploy"

setup ==
  /\ pc = "start"
  /\ \E loaded \in {"ok", "config_error", "cache_error"} :
       /\ loaded # "ok" => faults < MaxFaults
       /\ faults' = IF loaded # "ok" THEN faults + 1 ELSE faults
       /\ IF loaded # "ok" \/ (CacheRequired(mode) /\ ~cacheFile.present)
          THEN /\ Abort
               /\ events' = Append(events, Event("load", 0, "none", "failed"))
               /\ UNCHANGED << cache, cache0 >>
          ELSE /\ pc' = "pre"
               /\ cache' = cacheFile.data
               /\ cache0' = cacheFile.data
               /\ UNCHANGED << ret, events >>
  /\ UNCHANGED << mode, opt, config, cacheFile, fs, fs0, cacheFile0, plan, i, calls, before,
                  suggest_force, error_occurred, mutated, prev >>

(***************************************************************************)
(* Lines 48-70 / 120-142: the pre hook (act mode only), then the plan.     *)
(***************************************************************************)
make_plan ==
  IF mode = "deploy"
  THEN plan_deploy(file_state_from_configuration(config, cache))
  ELSE plan_undeploy(cache)

pre_hook ==
  /\ pc = "pre"
  /\ \E hook \in {"ok", "failed"} :
       /\ hook = "failed" => (opt.act /\ faults < MaxFaults)
       /\ faults' = IF hook = "failed" THEN faults + 1 ELSE faults
       /\ IF hook = "failed"
          THEN /\ Abort
               /\ events' = Append(events, Event("pre_hook", 0, "none", "failed"))
               /\ UNCHANGED plan
          ELSE /\ pc' = "loop"
               /\ events' = IF opt.act
                            THEN Append(events, Event("pre_hook", 0, "none", "ok"))
                            ELSE events
               /\ plan' = make_plan
               /\ UNCHANGED ret
  /\ UNCHANGED << mode, opt, config, cacheFile, fs, fs0, cacheFile0, cache, cache0, i, calls, before,
                  suggest_force, error_occurred, mutated, prev >>

(***************************************************************************)
(* Lines 72-83 / 144-155: one iteration of `for action in plan`.           *)
(***************************************************************************)
LoopAffectsOnSkip(res) == res \in {"applied", "skipped"}

LoopAffectsOnError(res) == res \in {"applied", "error"}

LoopAffectsAlways(res) == TRUE

LoopAffects(res) == res = "applied"

LoopStopsOnError(res) == res # "error"

LoopContinues(res) == TRUE

run_action ==
  /\ pc = "loop"
  /\ i <= Len(plan)
  /\ \E fault \in 0..NumCalls(plan[i], fs, opt) :
       LET a == plan[i]
           r == run(a, fs, opt, fault)
           injected == fault > 0 /\ r.res = "error" /\ Len(r.calls) = fault
                        /\ ~MustFail(fs, r.calls[fault])
       IN  /\ fault > 0 => (injected /\ faults < MaxFaults)
           /\ faults' = IF injected THEN faults + 1 ELSE faults
           /\ fs' = r.fs
           /\ calls' = r.calls
           /\ before' = [fs |-> fs, cache |-> cache]
           /\ mutated' = (mutated \/ (opt.act /\ \E k \in 1..Len(r.calls) :
                                                   Mutating(r.calls[k])))
           /\ cache' = IF LoopAffects(r.res) THEN affect_cache(a, cache) ELSE cache
           /\ suggest_force' = (suggest_force \/ r.res = "skipped")
           /\ error_occurred' = (error_occurred \/ r.res = "error")
           /\ events' = Append(events, Event("action", i, r.cmp, r.res))
           /\ i' = IF LoopContinues(r.res) THEN i + 1 ELSE Len(plan) + 1
  /\ UNCHANGED << mode, opt, config, cacheFile, fs0, cacheFile0, pc, cache0, plan, ret, prev >>

(***************************************************************************)
(* Lines 88-95 / 157-166: the skip warning, then the cache is saved (act   *)
(* mode only).                                                             *)
(***************************************************************************)
SkipsForgiven(err, skip) == err

\* Lines 88-91: `if suggest_force { ...; error_occurred = true; }`
SkipsAreErrors(err, skip) == err \/ skip

save_cache_unchecked ==
  /\ pc = "loop"
  /\ i > Len(plan)
  /\ error_occurred' = SkipsAreErrors(error_occurred, suggest_force)
  /\ \E saved \in {"ok", "failed"} :
       /\ saved = "failed" => (opt.act /\ faults < MaxFaults)
       /\ faults' = IF saved = "failed" THEN faults + 1 ELSE faults
       /\ pc' = "post"
       /\ events' = IF opt.act
                    THEN Append(events, Event("save", 0, "none", saved))
                    ELSE events
       /\ cacheFile' = IF opt.act /\ saved = "ok"
                       THEN [present |-> TRUE, data |-> cache]
                       ELSE cacheFile
       /\ UNCHANGED ret
  /\ UNCHANGED << mode, opt, config, fs, fs0, cacheFile0, cache, cache0, plan, i, calls,
                  before, suggest_force, mutated, prev >>

save_cache ==
  /\ pc = "loop"
  /\ i > Len(plan)
  /\ error_occurred' = SkipsAreErrors(error_occurred, suggest_force)
  /\ \E saved \in {"ok", "failed"} :
       /\ saved = "failed" => (opt.act /\ faults < MaxFaults)
       /\ faults' = IF saved = "failed" THEN faults + 1 ELSE faults
       /\ IF saved = "failed"
          THEN /\ Abort
               /\ events' = Append(events, Event("save", 0, "none", "failed"))
               /\ UNCHANGED cacheFile
          ELSE /\ pc' = "post"
               /\ events' = IF opt.act
                            THEN Append(events, Event("save", 0, "none", "ok"))
                            ELSE events
               /\ cacheFile' = IF opt.act THEN [present |-> TRUE, data |-> cache]
                               ELSE cacheFile
               /\ UNCHANGED ret
  /\ UNCHANGED << mode, opt, config, fs, fs0, cacheFile0, cache, cache0, plan, i, calls, before,
                  suggest_force, mutated, prev >>

(***************************************************************************)
(* Lines 97-108 / 168-179: the post hook (act mode only) and the result.   *)
(***************************************************************************)
post_hook ==
  /\ pc = "post"
  /\ \E hook \in {"ok", "failed"} :
       /\ hook = "failed" => (opt.act /\ faults < MaxFaults)
       /\ faults' = IF hook = "failed" THEN faults + 1 ELSE faults
       /\ IF hook = "failed"
          THEN /\ Abort
               /\ events' = Append(events, Event("post_hook", 0, "none", "failed"))
          ELSE /\ pc' = "done"
               /\ ret' = IF error_occurred THEN "Ok(true)" ELSE "Ok(false)"
               /\ events' = IF opt.act
                            THEN Append(events, Event("post_hook", 0, "none", "ok"))
                            ELSE events
  /\ UNCHANGED << mode, opt, config, cacheFile, fs, fs0, cacheFile0, cache, cache0, plan, i, calls, before,
                  suggest_force, error_occurred, mutated, prev >>

(***************************************************************************)
(* The command is run again with the same configuration and options, on    *)
(* the filesystem and the cache file left by a run in act mode that the    *)
(* environment did not disturb (a dry run leaves nothing behind).          *)
(***************************************************************************)
HadError(evs) == \E k \in 1..Len(evs) : evs[k].ev = "action" /\ evs[k].res = "error"

rerun ==
  /\ pc = "done"
  /\ prev = "none"
  /\ faults = 0
  /\ opt.act
  /\ prev' = IF HadError(events) THEN "errors" ELSE "clean"
  /\ pc' = "start"
  /\ cache' = EmptyCache
  /\ cache0' = EmptyCache
  /\ plan' = << >>
  /\ i' = 1
  /\ events' = << >>
  /\ calls' = << >>
  /\ before' = [fs |-> fs, cache |-> EmptyCache]
  /\ suggest_force' = FALSE
  /\ error_occurred' = FALSE
  /\ mutated' = FALSE
  /\ ret' = "none"
  /\ fs0' = fs
  /\ cacheFile0' = cacheFile
  /\ UNCHANGED << mode, opt, config, cacheFile, fs, faults >>

Next ==
  \/ setup
  \/ pre_hook
  \/ run_action
  \/ save_cache
  \/ post_hook
  \/ rerun

Spec == Init /\ [][Next]_vars

(***************************************************************************)
(* Properties                                                              *)
(***************************************************************************)
Planned == pc \in {"loop", "post", "done"}

\* The FileState the plan of the current deploy run was made from
PlannedState == file_state_from_configuration(config, cache0)

Kinds == {"DeleteSymlink", "DeleteTemplate", "CreateSymlink", "CreateTemplate",
          "UpdateSymlink", "UpdateTemplate"}
DeleteKinds == {"DeleteSymlink", "DeleteTemplate"}
CreateKinds == {"CreateSymlink", "CreateTemplate"}
UpdateKinds == {"UpdateSymlink", "UpdateTemplate"}

PhaseOf(kind) ==
  CASE kind = "DeleteSymlink"  -> 1
    [] kind = "DeleteTemplate" -> 2
    [] kind = "CreateSymlink"  -> 3
    [] kind = "CreateTemplate" -> 4
    [] kind = "UpdateSymlink"  -> 5
    [] kind = "UpdateTemplate" -> 6

PlanKinds == {plan[k].kind : k \in 1..Len(plan)}

\* Number of actions of the plan of this kind for this description
Occurrences(kind, d) ==
  Cardinality({k \in 1..Len(plan) : plan[k] = MkAction(kind, d)})

\* C1: the plan of plan_deploy is ordered in six phases (delete symlinks,
\* delete templates, create symlinks, create templates, update symlinks,
\* update templates): no action of a later phase precedes one of an earlier.
C1_SixPhases ==
  (mode = "deploy" /\ Planned) =>
    \A j, k \in 1..Len(plan) :
      j < k => PhaseOf(plan[j].kind) <= PhaseOf(plan[k].kind)

C1_Witness ==
  /\ mode = "deploy" /\ Planned
  /\ Cardinality(PlanKinds) >= 3
  /\ PlanKinds \cap DeleteKinds # {}
  /\ PlanKinds \cap CreateKinds # {}
  /\ PlanKinds \cap UpdateKinds # {}

\* The set of descriptions plan_deploy owes an action of this kind
Owed(kind, st) ==
  CASE kind = "DeleteSymlink"  -> st.existing_symlinks  \ st.desired_symlinks
    [] kind = "DeleteTemplate" -> st.existing_templates \ st.desired_templates
    [] kind = "CreateSymlink"  -> st.desired_symlinks  \ st.existing_symlinks
    [] kind = "CreateTemplate" -> st.desired_templates \ st.existing_templates
    [] kind = "UpdateSymlink"  -> st.desired_symlinks  \cap st.existing_symlinks
    [] kind = "UpdateTemplate" -> st.desired_templates \cap st.existing_templates

\* C2: plan_deploy emits exactly one Delete for each element of existing
\* minus desired, one Create for each element of desired minus existing, one
\* Update for each element of the intersection, and no other action.
C2_OneActionEach ==
  (mode = "deploy" /\ Planned) =>
    /\ \A kind \in Kinds, d \in Descriptions :
         Occurrences(kind, d) = IF d \in Owed(kind, PlannedState) THEN 1 ELSE 0
    /\ \A k \in 1..Len(plan) :
         plan[k].kind \in Kinds /\ plan[k].source \in Sources
                                /\ plan[k].target \in Targets

C2_Witness ==
  /\ mode = "deploy" /\ Planned
  /\ \E k \in 1..Len(plan) : plan[k].kind = "DeleteTemplate"
  /\ \E k \in 1..Len(plan) : plan[k].kind = "CreateSymlink"
  /\ \E k \in 1..Len(plan) : plan[k].kind = "UpdateSymlink"

DisjointState(st) ==
  /\ st.desired_symlinks  \cap st.existing_symlinks  = {}
  /\ st.desired_templates \cap st.existing_templates = {}

SymlinksBeforeTemplates ==
  \A j, k \in 1..Len(plan) :
    (plan[j].kind = "CreateTemplate" /\ plan[k].kind = "CreateSymlink") => k < j

\* C3 as stated: when desired and existing are disjoint, plan_deploy
\* produces only Create actions, symlinks before templates.
C3_OnlyCreates ==
  (mode = "deploy" /\ Planned /\ DisjointState(PlannedState)) =>
    /\ PlanKinds \subseteq CreateKinds
    /\ SymlinksBeforeTemplates

\* C3 amended: when desired and existing are disjoint, plan_deploy produces
\* no Update action: one Delete per existing element, then one Create per
\* desired element, every CreateSymlink before every CreateTemplate; only
\* Create actions when existing is empty.
C3_DeletesThenCreates ==
  (mode = "deploy" /\ Planned /\ DisjointState(PlannedState)) =>
    /\ PlanKinds \subseteq (DeleteKinds \cup CreateKinds)
    /\ Len(plan) = Cardinality(cache0.symlinks) + Cardinality(cache0.templates)
                     + Cardinality(config.symlinks) + Cardinality(config.templates)
    /\ \A j, k \in 1..Len(plan) :
         (plan[j].kind \in CreateKinds /\ plan[k].kind \in DeleteKinds) => k < j
    /\ SymlinksBeforeTemplates
    /\ (cache0 = EmptyCache => PlanKinds \subseteq CreateKinds)

C3_Witness ==
  /\ mode = "deploy" /\ Planned /\ DisjointState(PlannedState)
  /\ cache0 # EmptyCache
  /\ \E j, k \in 1..Len(plan) :
       plan[j].kind = "CreateSymlink" /\ plan[k].kind = "CreateTemplate"

IsActionEvent(e) == e.ev = "action"
ActionEvents == SelectSeq(events, IsActionEvent)

\* Every action run so far compared Identical / returned applied
AllIdentical == \A k \in 1..Len(events) :
                  events[k].ev = "action" => events[k].cmp = "Identical"
AllApplied == \A k \in 1..Len(events) :
                events[k].ev = "action" => events[k].res = "applied"

LoopOver == Planned /\ i > Len(plan)

Entries(c) == Cardinality(c.symlinks) + Cardinality(c.templates)

\* C4: when desired and existing are identical, plan_deploy produces only
\* Update actions, and running them against Identical comparisons makes no
\* mutating filesystem call and leaves the cache as it was loaded.
C4_IdenticalNoOp ==
  (mode = "deploy" /\ Planned /\ config = cache0) =>
    /\ PlanKinds \subseteq UpdateKinds
    /\ Len(plan) = Entries(config)
    /\ AllIdentical =>
         /\ ~mutated
         /\ cache = cache0
         /\ (opt.act /\ pc \in {"post", "done"}) => cacheFile.data = cache0

C4_Witness ==
  /\ mode = "deploy" /\ pc = "done" /\ opt.act
  /\ config = cache0
  /\ PlanKinds = UpdateKinds
  /\ Len(ActionEvents) = Len(plan)
  /\ AllIdentical

\* C5: idempotence.  After a deploy run in act mode has completed, a second
\* run with the same desired state and options, with no external change in
\* between, leaves the filesystem as it found it and the cache, in memory
\* and on disk, as it loaded it.
C5_SecondRunNoOp ==
  (mode = "deploy" /\ prev # "none") =>
    /\ fs = fs0
    /\ Planned => cache = cache0
    /\ pc \in {"post", "done"} => cacheFile.data = cache0

C5_Witness ==
  /\ mode = "deploy" /\ prev # "none" /\ pc = "done"
  /\ Len(plan) >= 2
  /\ Len(ActionEvents) = Len(plan)
  /\ \E k \in 1..Len(events) : events[k].res = "skipped"
  /\ \E k \in 1..Len(events) : events[k].res = "applied"

\* C6: plan_undeploy does not look at the desired state; it emits one
\* DeleteSymlink per cache.symlinks entry and one DeleteTemplate per
\* cache.templates entry, symlinks first, and once every action has been
\* applied the cache has no entry left.
C6_UndeployDeletesAll ==
  (mode = "undeploy" /\ Planned) =>
    /\ \A d \in Descriptions :
         /\ Occurrences("DeleteSymlink", d) = IF d \in cache0.symlinks THEN 1 ELSE 0
         /\ Occurrences("DeleteTemplate", d) = IF d \in cache0.templates THEN 1 ELSE 0
    /\ Len(plan) = Entries(cache0)
    /\ \A j, k \in 1..Len(plan) :
         (plan[j].kind = "DeleteSymlink" /\ plan[k].kind = "DeleteTemplate") => j < k
    /\ (LoopOver /\ AllApplied) => cache = EmptyCache

C6_Witness ==
  /\ mode = "undeploy" /\ pc = "done" /\ opt.act
  /\ config # EmptyCache
  /\ PlanKinds = DeleteKinds
  /\ AllApplied
  /\ cacheFile.data = EmptyCache

\* The last action run, once one has run in this run of the command
Ran == ActionEvents # << >>
LastEv == ActionEvents[Len(ActionEvents)]
LastAct == plan[LastEv.idx]

CallOps == [k \in 1..Len(calls) |-> calls[k].op]
Entry(a) == [source |-> a.source, target |-> a.target]
CacheMap(c, kind) == IF IsSymlinkKind(kind) THEN c.symlinks ELSE c.templates

\* What the target of a create or update action holds once it is deployed
Deployed(a) == IF IsSymlinkKind(a.kind) THEN LinkTo(a.source) ELSE FileOf(a.source)

\* C7: force-gating.  On an OnlyTargetExists comparison, without force the
\* action is skipped after the comparison: no further call, filesystem and
\* cache as before.  With force a create or update action first removes the
\* target, then creates it anew; unless one of its calls fails it returns
\* applied and the cache holds source -> target.
C7_ForceGating ==
  (Ran /\ LastEv.cmp = "OnlyTargetExists") =>
    IF ~opt.force
    THEN /\ LastEv.res = "skipped"
         /\ calls = << CompareCall(LastAct) >>
         /\ fs = before.fs
         /\ cache = before.cache
    ELSE LastAct.kind \notin DeleteKinds =>
           /\ Len(calls) >= 2
           /\ calls[2] = Call("remove_file", Tgt(LastAct.target), NoPath)
           /\ LastEv.res \in {"applied", "error"}
           /\ LastEv.res = "applied" =>
                /\ Entry(LastAct) \in CacheMap(cache, LastAct.kind)
                /\ CallOps[Len(calls)] \in {"make_symlink", "copy_permissions"}
                /\ opt.act => fs.tgt[LastAct.target] = Deployed(LastAct)

C7_Witness ==
  /\ Ran /\ LastEv.cmp = "OnlyTargetExists" /\ opt.act /\ opt.force
  /\ LastAct.kind = "CreateTemplate"
  /\ LastEv.res = "applied"
  /\ before.fs.tgt[LastAct.target] = Foreign
  /\ fs.tgt[LastAct.target] = FileOf(LastAct.source)

C7_WitnessSkip ==
  /\ Ran /\ LastEv.cmp = "OnlyTargetExists" /\ opt.act /\ ~opt.force
  /\ LastEv.res = "skipped"

\* C8: without force no action removes or overwrites a target that its
\* comparison shows in conflict (Mismatch, OnlyTargetExists): the action is
\* skipped and the filesystem is left as it was.  An occupied target changes
\* only when a delete finds it exactly as recorded.
C8_NoOverwriteWithoutForce ==
  (Ran /\ ~opt.force) =>
    /\ LastEv.cmp \in Conflicts => (LastEv.res = "skipped" /\ fs = before.fs)
    /\ \A t \in Targets :
         fs.tgt[t] # before.fs.tgt[t] =>
           /\ t = LastAct.target
           /\ LastEv.cmp \notin Conflicts
           /\ \/ before.fs.tgt[t] = Missing
              \/ LastAct.kind \in DeleteKinds /\ LastEv.cmp = "Identical"

C8_Witness ==
  /\ Ran /\ ~opt.force /\ opt.act
  /\ LastEv.cmp = "Mismatch"
  /\ LastAct.kind = "DeleteSymlink"
  /\ LastEv.res = "skipped"
  /\ fs.tgt[LastAct.target] = Foreign
  /\ Len(ActionEvents) >= 2

\* C9: the in-memory cache changes only when an action returned applied: a
\* skipped or failed action leaves it as it was; an applied delete removes
\* the entry of its source, an applied create or update puts source ->
\* target in place of whatever the source had.
C9_CacheOnlyOnApplied ==
  /\ (Planned /\ ~Ran) => cache = cache0
  /\ Ran =>
       /\ LastEv.res # "applied" => cache = before.cache
       /\ (LastEv.res = "applied" /\ LastAct.kind \in DeleteKinds) =>
            /\ \A e \in CacheMap(cache, LastAct.kind) : e.source # LastAct.source
            /\ \A e \in CacheMap(before.cache, LastAct.kind) :
                 e.source # LastAct.source => e \in CacheMap(cache, LastAct.kind)
       /\ (LastEv.res = "applied" /\ LastAct.kind \notin DeleteKinds) =>
            /\ Entry(LastAct) \in CacheMap(cache, LastAct.kind)
            /\ \A e \in CacheMap(cache, LastAct.kind) :
                 e.source = LastAct.source => e = Entry(LastAct)

C9_Witness ==
  /\ Ran /\ Len(ActionEvents) = 3
  /\ ActionEvents[1].res = "applied"
  /\ ActionEvents[2].res = "skipped"
  /\ ActionEvents[3].res = "error"
  /\ cache = before.cache
  /\ cache # cache0

\* The cache after the first n actions: the loaded cache with the effect of
\* every applied action among them, in plan order
RECURSIVE Replay(_)
Replay(n) ==
  IF n = 0 THEN cache0
  ELSE IF ActionEvents[n].res = "applied"
       THEN affect_cache(plan[n], Replay(n - 1))
       ELSE Replay(n - 1)

\* C10: a failing action never aborts the plan.  Every action is run exactly
\* once, in plan order, whatever the earlier ones returned; the run reaches
\* the end of the loop only with the whole plan run; and each action starts
\* from the cache that holds the effects of all the actions before it.
C10_WholePlanInOrder ==
  Planned =>
    /\ Len(ActionEvents) = i - 1
    /\ i <= Len(plan) + 1
    /\ \A k \in 1..Len(ActionEvents) : ActionEvents[k].idx = k
    /\ pc \in {"post", "done"} => Len(ActionEvents) = Len(plan)
    /\ cache = Replay(i - 1)
    /\ Ran => before.cache = Replay(i - 2)

C10_Witness ==
  /\ pc = "done" /\ Len(plan) = 3
  /\ ActionEvents[1].res = "error"
  /\ ActionEvents[2].res = "skipped"
  /\ ActionEvents[3].res = "applied"

\* Some action of this run returned an error or was skipped
SomeNotApplied ==
  \E k \in 1..Len(ActionEvents) : ActionEvents[k].res \in {"error", "skipped"}

\* C11: a completed deploy or undeploy run returns Ok(true) exactly when at
\* least one action of the plan returned an error or was skipped, and
\* Ok(false) when every action was applied (the empty plan included); a
\* skip alone, with no failure, makes it Ok(true).
C11_ReturnsTrueOnErrorOrSkip ==
  pc = "done" =>
    /\ ret \in {"Ok(true)", "Ok(false)"}
    /\ (ret = "Ok(true)") <=> SomeNotApplied
    /\ (ret = "Ok(false)") <=> AllApplied

C11_Witness ==
  /\ pc = "done" /\ ret = "Ok(true)"
  /\ faults = 0
  /\ \A k \in 1..Len(ActionEvents) : ActionEvents[k].res # "error"
  /\ \E k \in 1..Len(ActionEvents) : ActionEvents[k].res = "skipped"
  /\ \E k \in 1..Len(ActionEvents) : ActionEvents[k].res = "applied"

EventsOf(kinds) == SelectSeq(events, LAMBDA e : e.ev \in kinds)

\* The cache file is as the run loaded it
CacheFileUntouched == cacheFile = cacheFile0

\* C12: a dry run (act not set) changes nothing persistent: the filesystem
\* stays as the run found it, the cache file is never saved and no pre or
\* post hook is invoked, whatever the plan and the outcomes of its actions.
\* In act mode the cache is saved once per run, after the last action of the
\* plan and with the cache the actions left.
C12_DryRunChangesNothing ==
  /\ ~opt.act =>
       /\ fs = fs0
       /\ ~mutated
       /\ EventsOf({"pre_hook", "save", "post_hook"}) = << >>
       /\ CacheFileUntouched
  /\ (opt.act /\ Planned) =>
       /\ Len(EventsOf({"save"})) = IF pc = "loop" THEN 0 ELSE 1
       /\ pc = "loop" => CacheFileUntouched
       /\ pc \in {"post", "done"} =>
            /\ cacheFile = [present |-> TRUE, data |-> cache]
            /\ Len(ActionEvents) = Len(plan)
            /\ \A j, k \in 1..Len(events) :
                 (events[j].ev = "action" /\ events[k].ev = "save") => j < k

C12_Witness ==
  /\ ~opt.act /\ pc = "done"
  /\ Len(plan) >= 2
  /\ AllApplied
  /\ \E k \in 1..Len(calls) : Mutating(calls[k])
  /\ cache # cache0
  /\ cacheFile.present

\* Loading the configuration or the cache failed in this run
LoadFailed == EventsOf({"load"}) # << >>

\* C13: a setup failure aborts before any plan executes and with no
\* mutation.  When the configuration or the cache cannot be loaded, or the
\* cache file is missing for undeploy, the run returns an error: no hook
\* runs, no action is executed, the filesystem and the cache file stay as
\* they were.  For deploy a missing cache file is no failure: the run goes on
\* with an empty cache.
C13_SetupFailureAborts ==
  /\ LoadFailed =>
       /\ pc = "failed" /\ ret = "Err"
       /\ Len(events) = 1
       /\ plan = << >> /\ calls = << >>
       /\ fs = fs0 /\ ~mutated
       /\ CacheFileUntouched
       /\ faults = 1 \/ (mode = "undeploy" /\ ~cacheFile0.present)
  /\ (mode = "undeploy" /\ ~cacheFile0.present /\ pc # "start") => LoadFailed
  /\ (mode = "deploy" /\ ~cacheFile0.present /\ pc # "start" /\ faults = 0) =>
       /\ ~LoadFailed
       /\ pc # "failed"
       /\ cache0 = EmptyCache
       /\ Planned => plan = plan_deploy(file_state_from_configuration(config, EmptyCache))

C13_Witness ==
  /\ mode = "undeploy" /\ ~cacheFile0.present /\ opt.act
  /\ faults = 0
  /\ pc = "failed" /\ ret = "Err"
  /\ LoadFailed

\* The source of e moves to another target: e is only in the existing state
\* (kind dk owes its delete), d only in the desired one (kind ck owes its
\* create)
Moved(dk, e, ck, d) ==
  /\ e \in Owed(dk, PlannedState)
  /\ d \in Owed(ck, PlannedState)
  /\ e.source = d.source
  /\ e.target # d.target

\* Index of the action of this kind for this description in the plan
IndexOf(kind, d) == CHOOSE k \in 1..Len(plan) : plan[k] = MkAction(kind, d)

\* C14: delete-before-create.  When a source moves from target P (only in
\* existing) to target Q (only in desired), plan_deploy places the Delete of
\* the vacated pair before the Create of the new pair; once both have been
\* applied the cache maps the source to Q and to nothing else: the delete
\* does not erase the new entry.
C14_DeleteBeforeCreate ==
  (mode = "deploy" /\ Planned) =>
    \A dk \in DeleteKinds, ck \in CreateKinds, e, d \in Descriptions :
      Moved(dk, e, ck, d) =>
        /\ Occurrences(dk, e) = 1
        /\ Occurrences(ck, d) = 1
        /\ IndexOf(dk, e) < IndexOf(ck, d)
        /\ ( /\ i > IndexOf(dk, e) /\ i > IndexOf(ck, d)
             /\ ActionEvents[IndexOf(dk, e)].res = "applied"
             /\ ActionEvents[IndexOf(ck, d)].res = "applied" ) =>
             /\ d \in CacheMap(cache, ck)
             /\ \A x \in cache.symlinks \cup cache.templates :
                  x.source = d.source => x = d

C14_Witness ==
  /\ mode = "deploy" /\ pc = "done" /\ opt.act
  /\ \E e, d \in Descriptions :
       /\ Moved("DeleteSymlink", e, "CreateSymlink", d)
       /\ ActionEvents[IndexOf("DeleteSymlink", e)].res = "applied"
       /\ ActionEvents[IndexOf("CreateSymlink", d)].res = "applied"
       /\ d \in cache.symlinks
       /\ fs.tgt[e.target] = Missing
       /\ fs.tgt[d.target] = LinkTo(d.source)

\* The calls of the last action are the first calls of full, all of them
\* unless the last one issued failed
IssuedInOrder(full) ==
  /\ Len(calls) <= Len(full)
  /\ calls = SubSeq(full, 1, Len(calls))
  /\ IF LastEv.res = "error" THEN TRUE
     ELSE LastEv.res = "applied" /\ calls = full

\* C15: CreateSymlink(source -> target) on a BothMissing or OnlySourceExists
\* comparison issues, in this order and with no other filesystem call,
\* compare_symlink(source, target), create_dir_all(parent of target),
\* make_symlink(target, source); unless one of them fails it returns applied,
\* the link is in place and the cache holds symlinks[source] = target.
C15_CreateSymlinkCalls ==
  (Ran /\ LastAct.kind = "CreateSymlink"
       /\ LastEv.cmp \in {"BothMissing", "OnlySourceExists"}) =>
    LET s == LastAct.source
        t == LastAct.target
    IN  /\ IssuedInOrder(<< Call("compare_symlink", Src(s), Tgt(t)),
                            Call("create_dir_all", Parent(Tgt(t)), NoPath),
                            Call("make_symlink", Tgt(t), Src(s)) >>)
        /\ LastEv.res = "applied" =>
             /\ [source |-> s, target |-> t] \in cache.symlinks
             /\ opt.act => /\ fs.tgt[t] = LinkTo(s)
                           /\ Parent(Tgt(t)) \in fs.dirs
        /\ LastEv.res = "error" => cache = before.cache

C15_Witness ==
  /\ Ran /\ LastAct.kind = "CreateSymlink" /\ opt.act
  /\ LastEv.cmp = "BothMissing"
  /\ LastEv.res = "applied"
  /\ Len(calls) = 3
  /\ before.fs.tgt[LastAct.target] = Missing
  /\ fs.tgt[LastAct.target] = LinkTo(LastAct.source)
  /\ Entry(LastAct) \in cache.symlinks

\* C16: CreateTemplate(source, target, cache path) on a BothMissing
\* comparison issues, in this order and with no other filesystem call,
\* compare_template(target, cache path), create_dir_all(parent of target),
\* read_to_string(source), create_dir_all(parent of cache path),
\* write(cache path), copy_file(cache path, target),
\* copy_permissions(source, target); unless one of them fails it returns
\* applied.  The rendered artifact is written to the cache path before
\* anything is copied to the target.
C16_CreateTemplateCalls ==
  (Ran /\ LastAct.kind = "CreateTemplate" /\ LastEv.cmp = "BothMissing") =>
    LET s == LastAct.source
        t == LastAct.target
    IN  /\ IssuedInOrder(<< Call("compare_template", Tgt(t), CachePath(s)),
                            Call("create_dir_all", Parent(Tgt(t)), NoPath),
                            Call("read_to_string", Src(s), NoPath),
                            Call("create_dir_all", Parent(CachePath(s)), NoPath),
                            Call("write", CachePath(s), NoPath),
                            Call("copy_file", CachePath(s), Tgt(t)),
                            Call("copy_permissions", Src(s), Tgt(t)) >>)
        /\ \A j, k \in 1..Len(calls) :
             (calls[j].op = "write" /\ calls[k].op = "copy_file") => j < k
        /\ opt.act =>
             /\ fs.tgt[t] \in {Missing, FileOf(s)}
             /\ fs.tgt[t] = FileOf(s) => s \in fs.art
             /\ LastEv.res = "applied" => fs.tgt[t] = FileOf(s)

C16_Witness ==
  /\ Ran /\ LastAct.kind = "CreateTemplate" /\ opt.act
  /\ LastEv.cmp = "BothMissing"
  /\ LastEv.res = "applied"
  /\ Len(calls) = 7
  /\ LastAct.source \notin before.fs.art
  /\ LastAct.source \in fs.art
  /\ fs.tgt[LastAct.target] = FileOf(LastAct.source)

\* Position of an event in the order of a run
StepOf(ev) ==
  CASE ev = "load"      -> 0
    [] ev = "pre_hook"  -> 1
    [] ev = "action"    -> 2
    [] ev = "save"      -> 3
    [] ev = "post_hook" -> 4

Failed(ev) == \E k \in 1..Len(events) : events[k] = Event(ev, 0, "none", "failed")
Succeeded(ev) == \E k \in 1..Len(events) : events[k] = Event(ev, 0, "none", "ok")

\* C17: in act mode a run goes pre hook, every action of the plan, cache
\* save, post hook.  A failing pre hook ends the run with an error, no
\* action executed and the cache file not saved; a failing save ends it
\* without the post hook; the post hook never runs before the cache has
\* been saved.
C17_HookOrder ==
  opt.act =>
    /\ \A j, k \in 1..Len(events) :
         j < k => /\ StepOf(events[j].ev) <= StepOf(events[k].ev)
                  /\ events[j].ev # "action" => events[j].ev # events[k].ev
                  /\ events[j].res # "failed"
    /\ (\E k \in 1..Len(events) : events[k].res = "failed") =>
         pc = "failed" /\ ret = "Err"
    /\ Planned => events[1] = Event("pre_hook", 0, "none", "ok")
    /\ Failed("pre_hook") =>
         /\ ActionEvents = << >> /\ plan = << >>
         /\ fs = fs0
         /\ CacheFileUntouched
    /\ Failed("save") =>
         /\ EventsOf({"post_hook"}) = << >>
         /\ CacheFileUntouched
    /\ EventsOf({"post_hook"}) # << >> =>
         /\ Succeeded("save")
         /\ Len(ActionEvents) = Len(plan)
         /\ cacheFile = [present |-> TRUE, data |-> cache]
    /\ pc = "done" => Len(events) = Len(plan) + 3

C17_Witness ==
  /\ opt.act /\ pc = "failed"
  /\ Failed("save")
  /\ Len(ActionEvents) >= 2
  /\ cache # cache0
  /\ cacheFile = cacheFile0

\* C18: convergence of the cache.  With each source at most once in the
\* desired sets, after a deploy run in which every action of the plan
\* returned applied, the symlinks of the cache are exactly the desired
\* symlinks and its templates exactly the desired templates, whatever the
\* cache held before the run.
C18_CacheConverges ==
  (mode = "deploy" /\ LoopOver /\ AllApplied) =>
    /\ cache.symlinks = PlannedState.desired_symlinks
    /\ cache.templates = PlannedState.desired_templates
    /\ cache = config

C18_Witness ==
  /\ mode = "deploy" /\ pc = "done" /\ opt.act
  /\ AllApplied
  /\ PlanKinds \cap DeleteKinds # {}
  /\ PlanKinds \cap CreateKinds # {}
  /\ PlanKinds \cap UpdateKinds # {}
  /\ cache0 # config
  /\ cache = config
  /\ cacheFile.data = config

\* The entries of this kind of delete whose action did not return applied
NotDeleted(kind) ==
  {Entry(plan[k]) : k \in {n \in 1..Len(ActionEvents) :
                             /\ plan[n].kind = kind
                             /\ ActionEvents[n].res # "applied"}}

\* C19: after an undeploy run with any mix of action outcomes, the cache
\* that is saved holds exactly the entries whose delete was skipped or
\* failed and no entry whose delete was applied; what it holds stays
\* managed: a later undeploy run plans a delete for each of them.
C19_UndeployKeepsUndeleted ==
  mode = "undeploy" =>
    /\ LoopOver =>
         /\ cache.symlinks = NotDeleted("DeleteSymlink")
         /\ cache.templates = NotDeleted("DeleteTemplate")
    /\ (opt.act /\ pc \in {"post", "done"}) => cacheFile.data = cache
    /\ (prev # "none" /\ Planned) =>
         /\ \A e \in cacheFile0.data.symlinks : Occurrences("DeleteSymlink", e) = 1
         /\ \A e \in cacheFile0.data.templates : Occurrences("DeleteTemplate", e) = 1
         /\ Len(plan) = Entries(cacheFile0.data)

C19_Witness ==
  /\ mode = "undeploy" /\ opt.act /\ pc = "done" /\ prev = "none"
  /\ Len(plan) = 2
  /\ ActionEvents[1].res = "applied"
  /\ ActionEvents[2].res \in {"skipped", "error"}
  /\ cacheFile.data = [symlinks |-> {}, templates |-> {Entry(plan[2])}]

C19_WitnessLater ==
  /\ mode = "undeploy" /\ prev # "none" /\ pc = "loop"
  /\ Len(plan) = 1
  /\ Entries(cacheFile0.data) = 1

====
